---- MODULE Spec2Model ----
(***************************************************************************)
(* A model of src/ml_prediction.py: the evaluation pipeline                *)
(* create_evaluate_model (data loading, parameter resolution, 5-fold       *)
(* validation, held-out test), the fold loop of validate_model, the        *)
(* standardization of test_model and the results log written by            *)
(* write_results_to_csv.                                                   *)
(*                                                                         *)
(* The estimators, GridSearchCV and the sklearn metrics are external: a    *)
(* prediction or a metric is the record of the call that produces it (the  *)
(* seeds are fixed in the source, so equal calls give equal results).      *)
(* pandas is the current one: indexing with a label that is absent raises  *)
(* KeyError.                                                               *)
(***************************************************************************)
EXTENDS Integers, Sequences, FiniteSets, TLC

VARIABLES
    \* ---- create_evaluate_model: the caller's arguments
    method,            \* 'RFreg' | 'RFclass' | 'LogReg' | anything else
    optimizeParams,    \* boolean
    selectedFeatures,  \* list of feature names
    featureTable,      \* the file at selectionFeaturesPath: [cols, index]
    outcomeTable,      \* the file at manualFeaturesPath: id -> outcome
    callerParams,      \* the dict object the caller passes as params
    \* ---- create_evaluate_model: the frame of the running call
    pc,                \* "idle", "load", "resolve", "validate", "test", "return", "done",
                       \* "failed"; "off" where another function is the one modelled
    paramsRef,         \* what the local name params is bound to: "caller", "best", "none"
    bestParams,        \* the dict modelSearch.best_params_
    suppliedParams,    \* the value of the params argument when the call was entered
    handedParams,      \* the dicts validate_model and test_model were called with, in order
    patIds,            \* X.index after line 51
    trainIds,          \* line 56
    testRows,          \* the index of yTest / Xtest, lines 58-59
    valResult,         \* <<>> or <<[yTrue, yPredReg]>> returned by validate_model
    testResult,        \* <<>> or <<[yTrue, yPredReg]>> returned by test_model
    error,             \* the exception that left the call, "none" if none
    \* ---- effects visible outside the call
    fits,              \* number of model fits so far
    searchRuns,        \* the cv argument of every GridSearchCV made, with the row count
    searchLogWrites,   \* number of times paramSearchResultsPath was written
    console,           \* what was printed
    returned,          \* the tuples returned so far, one per completed call
    calls,             \* number of calls made
    \* ---- validate_model's fold loop
    kfpc, yTrain, shuffled, foldNo, yPredReg, yTrue, writes,
    \* ---- test_model's standardization
    stpc, Xtrain, Xtest, XtrainOrig, XtestOrig,
    \* ---- write_results_to_csv
    files,             \* path -> [exists, rows]: the files of the results logs
    nWrites,           \* path -> number of calls made with that path
    lastArgs           \* <<>> or <<the arguments of the last call>>

pipeVars == <<method, optimizeParams, selectedFeatures, featureTable, outcomeTable,
              callerParams, pc, paramsRef, bestParams, suppliedParams, handedParams,
              patIds, trainIds, testRows, valResult, testResult, error, fits,
              searchRuns, searchLogWrites, console, returned, calls>>
kfVars == <<kfpc, yTrain, shuffled, foldNo, yPredReg, yTrue, writes>>
stVars == <<stpc, Xtrain, Xtest, XtrainOrig, XtestOrig>>
csvVars == <<files, nWrites, lastArgs>>
vars == <<pipeVars, kfVars, stVars, csvVars>>

\* ------------------------------------------------------------------ bounds
MaxExtra == 10      \* cohort members beyond the eight test identifiers
MaxCalls == 2       \* calls the caller makes with the same arguments
MaxRows == 6        \* training rows in the fold loop of validate_model
MaxCol == 3         \* rows of the training column that is standardized
MaxTestCol == 2     \* rows of the test column that is standardized
MaxVal == 3         \* largest feature value
MaxWrites == 3      \* calls of write_results_to_csv

\* ------------------------------------------------------------- small helpers
Min(a, b) == IF a < b THEN a ELSE b

RECURSIVE SeqSum(_)
SeqSum(s) == IF s = <<>> THEN 0 ELSE Head(s) + SeqSum(Tail(s))

Range(s) == {s[i] : i \in DOMAIN s}

\* ------------------------------------------------ parameter values and dicts
\* A Python value of a params dict: a single setting, or a list of values.
S(x) == [isList |-> FALSE, v |-> x, elems |-> <<>>]
L(es) == [isList |-> TRUE, v |-> "", elems |-> es]

\* The constructor keywords the docstrings give for each method.
AllowedNames(m) ==
    IF m \in {"RFreg", "RFclass"} THEN {"n_estimators", "max_features", "max_depth"}
    ELSE IF m = "LogReg" THEN {"penalty", "solver", "C", "max_iter"}
    ELSE {}

Supported == {"RFreg", "RFclass", "LogReg"}

\* The params dicts the caller passes.
ParamsChoices ==
    { "n_estimators" :> S("10"),
      ("n_estimators" :> L(<<S("10"), S("20")>>)) @@ ("max_depth" :> S("3")),
      ("max_depth" :> L(<<>>)) @@ ("n_estimators" :> L(<<S("10")>>)),
      "max_features" :> L(<<L(<<S("1"), S("2")>>)>>),
      ("C" :> L(<<S("1"), S("2")>>)) @@ ("max_iter" :> S("100")) }

\* Lines 65-67: every value that is not a list becomes a one-element list.
WrapLists(d) == [k \in DOMAIN d |-> IF d[k].isList THEN d[k] ELSE L(<<d[k]>>)]

\* A slip in line 76: the last value of the list instead of the first.
LastOf(v) == v.elems[Len(v.elems)]

\* Line 76: v[0].
FirstOf(v) == v.elems[1]

\* Lines 74-76: every list becomes its first element.
FirstElements(d) == [k \in DOMAIN d |-> IF d[k].isList THEN FirstOf(d[k]) ELSE d[k]]

\* v[0] of an empty list raises IndexError in the middle of the loop of lines 74-76:
\* the keys visited before it are already replaced, the others are not.
HasEmptyList(d) == \E k \in DOMAIN d : d[k].isList /\ d[k].elems = <<>>
PartlyCollapsed(d) ==
    { [k \in DOMAIN d |-> IF k \in K THEN FirstOf(d[k]) ELSE d[k]] :
        K \in SUBSET {k \in DOMAIN d : d[k].isList /\ d[k].elems # <<>>} }

\* Line 82: params['scoringOptiMetric'] = scoringOptiMetric (default 'r2').
WithScoring(d) ==
    [k \in DOMAIN d \cup {"scoringOptiMetric"} |->
        IF k = "scoringOptiMetric" THEN S("r2") ELSE d[k]]

\* The grid of GridSearchCV: one value per name, out of its list.
Candidates(d) == {c \in [DOMAIN d -> UNION {Range(d[k].elems) : k \in DOMAIN d}] :
                    \A k \in DOMAIN d : c[k] \in Range(d[k].elems)}

\* The candidates some fit succeeds on: a candidate whose setting is itself a list fails
\* in every fit, scores nan and is never the best; with no other candidate the search raises.
ValidCandidates(d) == {c \in Candidates(d) : \A k \in DOMAIN c : ~c[k].isList}

\* A slip in line 115: the row count is not halved.
CvFoldsNotHalved(n) == Min(5, n)

\* Line 115: cv = min(5, int(len(yTrain)/2)).
CvFolds(n) == Min(5, n \div 2)

\* ------------------------------------------------------------------ the data
\* Line 55.
testIds == {1, 8, 13, 20, 40, 44, 49, 55}

ExtraIds(k) == {100 + j : j \in 1..k}
DropIds == {1, 101}
Drops == {{}} \cup {{i} : i \in DropIds}

\* Line 45-47: the patients with a given outcome.
IdY(y) == {id \in DOMAIN y : y[id] >= 0}

\* Line 50: the patients with both input and output.
PatIds(X, y) == {id \in X.index : id \in IdY(y)}

\* A slip in line 56: the test identifiers are not taken out.
TrainIdsAll(index) == index

\* Line 56.
TrainIds(index) == {v \in index : v \notin testIds}

\* A slip in lines 58-59: a lookup that raises only if none of the labels is present.
LocRaisesIfNoneFound(index, labels) == index \cap labels = {}

\* Lines 58-59: .loc with a list of labels raises KeyError if one is absent.
LocRaises(index, labels) == ~(labels \subseteq index)

\* Line 40: X[selectedFeatures] raises KeyError if a column is absent.
ColumnsRaise(X, feats) == ~(Range(feats) \subseteq X.cols)

\* ------------------------------------------------------------- the estimators
\* What validate_model returns: the out-of-fold predictions of the 5 fits.
CvPrediction(m, P, train) ==
    [yTrue |-> [id \in train |-> outcomeTable[id]],
     yPredReg |-> [est |-> m, params |-> P, fitOn |-> "folds", train |-> train, rows |-> train]]

\* What test_model returns: the predictions on the test rows of one fit on all training rows.
TestPrediction(m, P, train, test) ==
    [yTrue |-> [id \in test |-> outcomeTable[id]],
     yPredReg |-> [est |-> m, params |-> P, fitOn |-> "all", train |-> train, rows |-> test]]

\* The dict the local name params is bound to.
CurrentParams == IF paramsRef = "best" THEN bestParams ELSE callerParams

\* Model(**params, random_state=0) raises TypeError for a keyword it does not know.
ConstructorRaises(m, P) == ~(DOMAIN P \subseteq AllowedNames(m))

\* fit rejects a setting that is a list.
FitRaises(P) == \E k \in DOMAIN P : P[k].isList

\* ------------------------------------------------------------- initial states
NoDict == [k \in {} |-> S("")]

IdleKf == /\ kfpc = "off" /\ yTrain = <<>> /\ shuffled = <<>> /\ foldNo = 0
          /\ yPredReg = <<>> /\ yTrue = <<>> /\ writes = <<>>
IdleSt == /\ stpc = "off" /\ Xtrain = <<>> /\ Xtest = <<>>
          /\ XtrainOrig = <<>> /\ XtestOrig = <<>>
IdleCsv == /\ files = <<>> /\ nWrites = <<>> /\ lastArgs = <<>>
IdlePipe == /\ optimizeParams = FALSE /\ selectedFeatures = <<>>
            /\ featureTable = [cols |-> {}, index |-> {}] /\ outcomeTable = <<>>
            /\ callerParams = NoDict /\ pc = "off" /\ paramsRef = "none"
            /\ bestParams = NoDict /\ suppliedParams = NoDict /\ handedParams = <<>>
            /\ patIds = {} /\ trainIds = {} /\ testRows = {}
            /\ valResult = <<>> /\ testResult = <<>> /\ error = "none" /\ fits = 0
            /\ searchRuns = {} /\ searchLogWrites = 0 /\ console = <<>>
            /\ returned = <<>> /\ calls = 0

Init ==
    /\ method \in Supported \cup {"SVM"}
    /\ optimizeParams \in BOOLEAN
    /\ selectedFeatures \in {<<"f1">>, <<"f1", "f3">>}
    /\ \E k \in 0..MaxExtra, dropX \in Drops, dropY \in Drops, negY \in Drops :
         /\ featureTable = [cols |-> {"f1", "f2"},
                            index |-> (testIds \cup ExtraIds(k)) \ dropX]
         /\ outcomeTable = [id \in (testIds \cup ExtraIds(k)) \ dropY |->
                              IF id \in negY THEN -1 ELSE id % 2]
    /\ callerParams \in ParamsChoices
    /\ pc = "idle"
    /\ paramsRef = "none"
    /\ bestParams = NoDict
    /\ suppliedParams = NoDict
    /\ handedParams = <<>>
    /\ patIds = {} /\ trainIds = {} /\ testRows = {}
    /\ valResult = <<>> /\ testResult = <<>>
    /\ error = "none"
    /\ fits = 0
    /\ searchRuns = {}
    /\ searchLogWrites = 0
    /\ console = <<>>
    /\ returned = <<>>
    /\ calls = 0
    /\ IdleKf /\ IdleSt /\ IdleCsv

\* ------------------------------------------------------------------- actions
dataVars == <<method, optimizeParams, selectedFeatures, featureTable, outcomeTable>>
others == <<kfVars, stVars, csvVars>>

Fail(e) == /\ pc' = "failed"
           /\ error' = e

\* The caller calls create_evaluate_model with its arguments and its params dict.
Call ==
    /\ pc \in {"idle", "done", "failed"}
    /\ calls < MaxCalls
    /\ calls' = calls + 1
    /\ pc' = "load"
    /\ error' = "none"
    /\ paramsRef' = "caller"
    /\ suppliedParams' = callerParams
    /\ handedParams' = <<>>
    /\ bestParams' = NoDict
    /\ patIds' = {} /\ trainIds' = {} /\ testRows' = {}
    /\ valResult' = <<>> /\ testResult' = <<>>
    /\ UNCHANGED <<dataVars, callerParams, fits, searchRuns, searchLogWrites, console,
                   returned, others>>

\* Lines 38-61.
LoadData ==
    /\ pc = "load"
    /\ IF ColumnsRaise(featureTable, selectedFeatures)
       THEN /\ Fail("KeyError")
            /\ UNCHANGED <<patIds, trainIds, testRows>>
       ELSE /\ patIds' = PatIds(featureTable, outcomeTable)
            /\ IF LocRaises(patIds', testIds)
               THEN /\ Fail("KeyError")
                    /\ trainIds' = TrainIds(patIds')
                    /\ UNCHANGED testRows
               ELSE /\ trainIds' = TrainIds(patIds')
                    /\ testRows' = testIds
                    /\ pc' = "resolve"
                    /\ UNCHANGED error
    /\ UNCHANGED <<dataVars, callerParams, paramsRef, bestParams, suppliedParams,
                   handedParams, valResult, testResult, fits, searchRuns,
                   searchLogWrites, console, returned, calls, others>>

\* Lines 63-70 with search_model_params, lines 104-123.
ResolveSearch ==
    /\ pc = "resolve"
    /\ optimizeParams
    /\ callerParams' = WrapLists(callerParams)
    /\ LET grid == callerParams'
           n == Cardinality(trainIds)
           cv == CvFolds(n)
       IN IF method \notin Supported
          THEN /\ console' = Append(console, "not implemented")
               /\ paramsRef' = "none"
               /\ pc' = "validate"
               /\ UNCHANGED <<bestParams, fits, searchRuns, searchLogWrites, error>>
          ELSE /\ searchRuns' = searchRuns \cup {[cv |-> cv, rows |-> n]}
               /\ IF \/ HasEmptyList(grid) \/ ConstructorRaises(method, grid) \/ cv < 2
                     \/ ValidCandidates(grid) = {}
                  THEN /\ Fail("ValueError")
                       /\ UNCHANGED <<bestParams, fits, searchLogWrites, console, paramsRef>>
                  ELSE /\ fits' = fits + Cardinality(Candidates(grid)) * cv + 1
                       /\ searchLogWrites' = searchLogWrites + 1
                       /\ bestParams' \in ValidCandidates(grid)
                       /\ paramsRef' = "best"
                       /\ pc' = "validate"
                       /\ UNCHANGED <<console, error>>
    /\ UNCHANGED <<dataVars, suppliedParams, handedParams, patIds, trainIds, testRows,
                   valResult, testResult, returned, calls, others>>

\* Lines 72-76.
ResolveFixed ==
    /\ pc = "resolve"
    /\ ~optimizeParams
    /\ IF HasEmptyList(callerParams)
       THEN /\ callerParams' \in PartlyCollapsed(callerParams)
            /\ Fail("IndexError")
       ELSE /\ callerParams' = FirstElements(callerParams)
            /\ pc' = "validate"
            /\ UNCHANGED error
    /\ UNCHANGED <<dataVars, paramsRef, bestParams, suppliedParams, handedParams, patIds,
                   trainIds, testRows, valResult, testResult, fits, searchRuns,
                   searchLogWrites, console, returned, calls, others>>

\* Line 79 with validate_model, lines 140-174.
ValidateModel ==
    /\ pc = "validate"
    /\ handedParams' = IF paramsRef = "none" THEN handedParams
                       ELSE Append(handedParams, CurrentParams)
    /\ IF method \notin Supported
       THEN \* lines 147-149 print and return None; line 79 cannot unpack it
            /\ console' = Append(console, "not implemented")
            /\ Fail("TypeError")
            /\ UNCHANGED <<fits, valResult>>
       ELSE IF ConstructorRaises(method, CurrentParams)
       THEN /\ Fail("TypeError")
            /\ UNCHANGED <<fits, valResult, console>>
       ELSE IF Cardinality(trainIds) < 5 \/ FitRaises(CurrentParams)
       THEN /\ Fail("ValueError")
            /\ UNCHANGED <<fits, valResult, console>>
       ELSE /\ fits' = fits + 5
            /\ valResult' = <<CvPrediction(method, CurrentParams, trainIds)>>
            /\ console' = Append(console, "metrics")
            /\ pc' = "test"
            /\ UNCHANGED error
    /\ UNCHANGED <<dataVars, callerParams, paramsRef, bestParams, suppliedParams, patIds,
                   trainIds, testRows, testResult, searchRuns, searchLogWrites,
                   returned, calls, others>>

\* Line 80 with test_model, lines 197-217.
TestModel ==
    /\ pc = "test"
    /\ fits' = fits + 1
    /\ testResult' = <<TestPrediction(method, CurrentParams, trainIds, testRows)>>
    /\ console' = Append(console, "metrics")
    /\ pc' = "return"
    /\ handedParams' = Append(handedParams, CurrentParams)
    /\ UNCHANGED <<dataVars, callerParams, paramsRef, bestParams, suppliedParams,
                   patIds, trainIds, testRows, valResult, error,
                   searchRuns, searchLogWrites, returned, calls, others>>

\* Lines 82-83.
Return ==
    /\ pc = "return"
    /\ IF paramsRef = "best"
       THEN /\ bestParams' = WithScoring(bestParams)
            /\ UNCHANGED callerParams
       ELSE /\ callerParams' = WithScoring(callerParams)
            /\ UNCHANGED bestParams
    /\ returned' = Append(returned,
                          [yTrueTest |-> testResult[1].yTrue,
                           yPredRegTest |-> testResult[1].yPredReg,
                           yTrueVal |-> valResult[1].yTrue,
                           yPredRegVal |-> valResult[1].yPredReg,
                           params |-> WithScoring(CurrentParams)])
    /\ pc' = "done"
    /\ UNCHANGED <<dataVars, paramsRef, suppliedParams, handedParams, patIds, trainIds,
                   testRows, valResult, testResult, error, fits, searchRuns,
                   searchLogWrites, console, calls, others>>

Next == Call \/ LoadData \/ ResolveSearch \/ ResolveFixed \/ ValidateModel
        \/ TestModel \/ Return

Spec == Init /\ [][Next]_vars

\* ------------------------------------------- validate_model: the 5-fold loop
\* Rows are numbered 1..n here (0..n-1 in the source).

\* Line 152.
nSplits == 5

\* KFold: the first n % nSplits folds hold n // nSplits + 1 rows, the others n // nSplits.
FoldSize(n, f) == n \div nSplits + (IF f <= n % nSplits THEN 1 ELSE 0)

RECURSIVE FoldStart(_, _)
FoldStart(n, f) == IF f = 1 THEN 0 ELSE FoldStart(n, f - 1) + FoldSize(n, f - 1)

\* KFold.split with shuffle=True: fold f holds out a slice of the shuffled row numbers.
TestIndex(perm, f) ==
    {perm[j] : j \in (FoldStart(Len(perm), f) + 1)..(FoldStart(Len(perm), f) + FoldSize(Len(perm), f))}

TrainIndex(perm, f) == (1..Len(perm)) \ TestIndex(perm, f)

\* An index array is in ascending order (it is read off a mask).
RECURSIVE Ascending(_)
Ascending(set) ==
    IF set = {} THEN <<>>
    ELSE LET m == CHOOSE x \in set : \A y \in set : x <= y
         IN <<m>> \o Ascending(set \ {m})

\* Lines 156-157: np.zeros.
NoPrediction == [fitOn |-> {}, row |-> 0]
Zeros(n, z) == [i \in 1..n |-> z]

\* Lines 168-169: the prediction for the rows idx of the model fitted on the rows train.
Predict(train, idx) == [j \in DOMAIN idx |-> [fitOn |-> train, row |-> idx[j]]]

RECURSIVE AssignFrom(_, _, _, _)
\* arr with vals[j], vals[j + 1], ... stored at idx[j], idx[j + 1], ...
AssignFrom(arr, idx, vals, j) ==
    IF j > Len(idx) THEN arr
    ELSE AssignFrom([arr EXCEPT ![idx[j]] = vals[j]], idx, vals, j + 1)

\* A slip in lines 169-170: the values are stored from the front of the array, not at
\* the rows they belong to.
AssignFromFront(arr, idx, vals) ==
    [i \in DOMAIN arr |-> IF i \in DOMAIN vals THEN vals[i] ELSE arr[i]]

\* Lines 169-170: arr[idx] = vals.
AssignAt(arr, idx, vals) == AssignFrom(arr, idx, vals, 1)

\* Lines 159-169: what fold f computes: its held-out rows, their predictions by the
\* model fitted on the other rows, and their outcomes y2.
FoldValues(perm, y, f) ==
    LET testIndex == Ascending(TestIndex(perm, f))
    IN [testIndex |-> testIndex,
        predicted |-> Predict(TrainIndex(perm, f), testIndex),
        y2 |-> [j \in DOMAIN testIndex |-> y[testIndex[j]]]]

\* Lines 169-170: the two assignments, on the arrays a = <<yPredReg, yTrue>>.
StoreFold(a, w) ==
    <<AssignAt(a[1], w.testIndex, w.predicted), AssignAt(a[2], w.testIndex, w.y2)>>

\* Lines 162-170: the body of the loop for fold f.
FoldBody(a, perm, y, f) == StoreFold(a, FoldValues(perm, y, f))

\* The outcome vectors of the training rows: a different outcome in every row, so that
\* a value stored at the wrong row shows.
YTrains(n) == {[i \in 1..n |-> i]}

InitKf ==
    /\ method \in Supported \cup {"SVM"}
    /\ \E n \in 0..MaxRows : yTrain \in YTrains(n)
    /\ kfpc = "start"
    /\ shuffled = <<>>
    /\ foldNo = 0
    /\ yPredReg = <<>>
    /\ yTrue = <<>>
    /\ writes = <<>>
    /\ IdlePipe /\ IdleSt /\ IdleCsv

kfOthers == <<optimizeParams, selectedFeatures, featureTable, outcomeTable, callerParams,
              pc, paramsRef, bestParams, suppliedParams, handedParams, patIds, trainIds,
              testRows, valResult, testResult, fits, searchRuns, searchLogWrites,
              returned, calls, stVars, csvVars>>

\* Lines 140-159: the model, the KFold object, the result arrays, the split.
StartFolds ==
    /\ kfpc = "start"
    /\ IF method \notin Supported
       THEN /\ console' = Append(console, "not implemented")
            /\ kfpc' = "returned None"
            /\ UNCHANGED <<shuffled, foldNo, yPredReg, yTrue, writes, error>>
       ELSE IF Len(yTrain) < nSplits
       THEN /\ kfpc' = "failed"
            /\ error' = "ValueError"
            /\ yPredReg' = Zeros(Len(yTrain), NoPrediction)
            /\ yTrue' = Zeros(Len(yTrain), 0)
            /\ UNCHANGED <<shuffled, foldNo, writes, console>>
       ELSE /\ shuffled' \in Permutations(1..Len(yTrain))
            /\ yPredReg' = Zeros(Len(yTrain), NoPrediction)
            /\ yTrue' = Zeros(Len(yTrain), 0)
            /\ writes' = Zeros(Len(yTrain), 0)
            /\ foldNo' = 1
            /\ kfpc' = "loop"
            /\ UNCHANGED <<console, error>>
    /\ UNCHANGED <<method, yTrain, kfOthers>>

\* Lines 159-170: one pass of the loop.
FoldStep ==
    /\ kfpc = "loop"
    /\ foldNo <= nSplits
    /\ LET a == FoldBody(<<yPredReg, yTrue>>, shuffled, yTrain, foldNo)
       IN /\ yPredReg' = a[1]
          /\ yTrue' = a[2]
    \* every write stores a prediction of a model the entry has not seen: it changes it
    /\ writes' = [i \in DOMAIN writes |->
                    IF yPredReg'[i] # yPredReg[i] THEN writes[i] + 1 ELSE writes[i]]
    /\ foldNo' = foldNo + 1
    /\ UNCHANGED <<method, yTrain, shuffled, kfpc, console, error, kfOthers>>

\* Lines 172-174.
FinishFolds ==
    /\ kfpc = "loop"
    /\ foldNo > nSplits
    /\ console' = Append(console, "metrics")
    /\ kfpc' = "done"
    /\ UNCHANGED <<method, yTrain, shuffled, foldNo, yPredReg, yTrue, writes, error, kfOthers>>

NextKf == StartFolds \/ FoldStep \/ FinishFolds

SpecKf == InitKf /\ [][NextKf]_vars

\* ------------------------------------------ test_model: the standardization
\* A feature column is a sequence of fixed-point numbers, Scale units to 1; NaN is the
\* float nan, PosInf and NegInf the float infinities.
Scale == 1000
NaN == -100000000
PosInf == 100000001
NegInf == -100000001
Finite(x) == x \notin {NaN, PosInf, NegInf}

RECURSIVE SqrtBetween(_, _, _)
\* The integer square root of x, known to lie in lo..hi.
SqrtBetween(x, lo, hi) ==
    IF lo >= hi THEN lo
    ELSE LET mid == (lo + hi + 1) \div 2
         IN IF mid * mid <= x THEN SqrtBetween(x, mid, hi) ELSE SqrtBetween(x, lo, mid - 1)

Sqrt(x) == SqrtBetween(x, 0, 40000)

\* The values pandas reduces over: nan is skipped.
Valid(col) == SelectSeq(col, LAMBDA x : x # NaN)

\* DataFrame.mean of a column: nan if nothing is left.
Mean(col) ==
    LET v == Valid(col)
    IN IF v = <<>> THEN NaN ELSE SeqSum(v) \div Len(v)

\* DataFrame.std of a column (ddof = 1): nan with fewer than two values.
Std(col) ==
    LET v == Valid(col)
        m == Mean(col)
    IN IF Len(v) < 2 THEN NaN
       ELSE Sqrt(SeqSum([i \in DOMAIN v |-> (v[i] - m) * (v[i] - m)]) \div (Len(v) - 1))

\* (x - m) / s in floating point.
Standardized(x, m, s) ==
    IF x = NaN \/ m = NaN \/ s = NaN THEN NaN
    ELSE IF s = 0 THEN (IF x = m THEN NaN ELSE IF x > m THEN PosInf ELSE NegInf)
    ELSE ((x - m) * Scale) \div s

\* (col - m) / s, element by element.
Standardize(col, m, s) == [i \in DOMAIN col |-> Standardized(col[i], m, s)]

Columns(maxLen) ==
    UNION {[1..n -> {v * Scale : v \in 0..MaxVal}] : n \in 1..maxLen}

InitSt ==
    /\ method \in Supported
    /\ XtrainOrig \in Columns(MaxCol)
    /\ XtestOrig \in Columns(MaxTestCol)
    /\ Xtrain = XtrainOrig
    /\ Xtest = XtestOrig
    /\ stpc = "start"
    /\ IdlePipe /\ IdleKf /\ IdleCsv

\* Lines 197-205: the model, and for LogReg the two standardization statements in turn.
StandardizeForTest ==
    /\ stpc = "start"
    /\ IF method = "LogReg"
       THEN /\ Xtrain' = Standardize(Xtrain, Mean(Xtrain), Std(Xtrain))
            /\ Xtest' = Standardize(Xtest, Mean(Xtrain'), Std(Xtrain'))
       ELSE UNCHANGED <<Xtrain, Xtest>>
    /\ stpc' = "standardized"
    /\ UNCHANGED <<method, XtrainOrig, XtestOrig, optimizeParams, selectedFeatures,
                   featureTable, outcomeTable, callerParams, pc, paramsRef, bestParams,
                   suppliedParams, handedParams, patIds, trainIds, testRows, valResult,
                   testResult, error, fits, searchRuns, searchLogWrites, console,
                   returned, calls, kfVars, csvVars>>

\* Lines 210-217: fit on Xtrain, predict Xtest; fit rejects nan and infinity.
FitAndPredict ==
    /\ stpc = "standardized"
    /\ IF \E i \in DOMAIN Xtrain : ~Finite(Xtrain[i])
       THEN stpc' = "failed" /\ error' = "ValueError" /\ UNCHANGED console
       ELSE stpc' = "done" /\ console' = Append(console, "metrics") /\ UNCHANGED error
    /\ UNCHANGED <<method, Xtrain, Xtest, XtrainOrig, XtestOrig, optimizeParams,
                   selectedFeatures, featureTable, outcomeTable, callerParams, pc,
                   paramsRef, bestParams, suppliedParams, handedParams, patIds, trainIds,
                   testRows, valResult, testResult, fits, searchRuns, searchLogWrites,
                   returned, calls, kfVars, csvVars>>

NextSt == StandardizeForTest \/ FitAndPredict

SpecSt == InitSt /\ [][NextSt]_vars

\* ------------------------------------------------------ write_results_to_csv
\* A file is a sequence of rows, a row a sequence of cells, a cell a string. A
\* prediction is a number of halves (3 is 1.5), so that rounding has ties.

\* np.round: to the nearest integer, a tie to the even one.
Round(h) ==
    IF h % 2 = 0 THEN h \div 2
    ELSE IF ((h - 1) \div 2) % 2 = 0 THEN (h - 1) \div 2 ELSE (h + 1) \div 2

\* Lines 258-259.
Classes(pred) == [i \in DOMAIN pred |-> Round(pred[i])]

\* A metric of sklearn.metrics: the text of the call that computes it.
Metric(fn, yT, yP) == ToString([fn |-> fn, yTrue |-> yT, yPred |-> yP])

\* Lines 276-284 and 286-294: the nine metrics of one pair of arrays.
MetricNames ==
    <<"accuracy", "precisionMicro", "precisionMacro", "recallMicro", "recallMacro",
      "f1Micro", "f1Macro", "r2", "rmse">>

MetricCells(yT, yPReg) ==
    [i \in 1..9 |-> IF i <= 7 THEN Metric(MetricNames[i], yT, Classes(yPReg))
                    ELSE Metric(MetricNames[i], yT, yPReg)]

\* Lines 262-273: the keys of resultsDict before the metrics are added.
MetaKeys ==
    <<"selectionFeaturesPath", "FSmethod", "FSparams", "selectedFeatures", "MLmethod",
      "MLparams", "yTrueTest", "yPredRegTest", "yPredClassTest", "yTrueVal",
      "yPredRegVal", "yPredClassVal">>

\* Line 297: header = list(resultsDict.keys()), in insertion order.
Header ==
    MetaKeys \o [i \in 1..9 |-> MetricNames[i] \o "Test"]
             \o [i \in 1..9 |-> MetricNames[i] \o "Val"]

\* Lines 262-294 and writer.writerow: the values of resultsDict in the order of the header.
DataRow(a) ==
    <<a.selectionFeaturesPath, a.FSmethod, a.FSparams, ToString(a.selectedFeatures),
      a.MLmethod, a.MLparams, ToString(a.yTrueTest), ToString(a.yPredRegTest),
      ToString(Classes(a.yPredRegTest)), ToString(a.yTrueVal), ToString(a.yPredRegVal),
      ToString(Classes(a.yPredRegVal))>>
    \o MetricCells(a.yTrueTest, a.yPredRegTest)
    \o MetricCells(a.yTrueVal, a.yPredRegVal)

Paths == {"results.csv", "other.csv"}

\* The arguments of a call.
WriteArgs ==
    [predResultsPath : Paths,
     selectionFeaturesPath : {"selectionFeatures.csv"},
     FSmethod : {"MRMR"},
     FSparams : {"{}"},
     selectedFeatures : {<<"f1", "f2">>},
     MLmethod : Supported,
     MLparams : {"{'n_estimators': 10}"},
     yTrueTest : {<<0, 1>>},
     yPredRegTest : {<<1, 3>>, <<0, 2>>},
     yTrueVal : {<<1, 0, 1>>},
     yPredRegVal : {<<2, 1, 5>>, <<2, 0, 2>>}]

\* A slip in line 300: the test for the file is lost, every call takes the else branch.
IsFileNever(path) == FALSE

\* Line 300: os.path.isfile(predResultsPath).
IsFile(path) == files[path].exists

\* A slip in lines 301-303: the header is written in the append branch too.
AppendedWithHeader(rows, header, row) == rows \o <<header, row>>

\* Lines 301-303: mode 'a+', writerow.
Appended(rows, header, row) == Append(rows, row)

\* Lines 307-310: mode 'w', writeheader, writerow.
Created(header, row) == <<header, row>>

InitCsv ==
    /\ method \in Supported
    /\ files = [p \in Paths |-> [exists |-> FALSE, rows |-> <<>>]]
    /\ nWrites = [p \in Paths |-> 0]
    /\ lastArgs = <<>>
    /\ IdlePipe /\ IdleKf /\ IdleSt

\* Lines 257-310.
WriteResultsToCsv ==
    /\ nWrites["results.csv"] + nWrites["other.csv"] < MaxWrites
    /\ \E a \in WriteArgs :
         /\ a.MLmethod = method
         /\ lastArgs' = <<a>>
         /\ nWrites' = [nWrites EXCEPT ![a.predResultsPath] = @ + 1]
         /\ LET path == a.predResultsPath
                rows == IF IsFile(path)
                        THEN Appended(files[path].rows, Header, DataRow(a))
                        ELSE Created(Header, DataRow(a))
            IN files' = [files EXCEPT ![path] = [exists |-> TRUE, rows |-> rows]]
    /\ UNCHANGED <<pipeVars, kfVars, stVars>>

NextCsv == WriteResultsToCsv

SpecCsv == InitCsv /\ [][NextCsv]_vars

\* ------------------------------------------------------------------- claims
\* The cohort: the identifiers in both tables with outcome >= 0.
Cohort == {id \in featureTable.index \cap DOMAIN outcomeTable : outcomeTable[id] >= 0}

\* The running (or last) call has completed data loading.
Loaded == testRows # {}

\* C2 (as claimed): two fixed-mode calls with the same arguments and the same params
\* dict both complete and return identical validation and test prediction arrays.
C2_SecondCallIdentical ==
    (/\ ~optimizeParams
     /\ calls = 2
     /\ Len(returned) >= 1
     /\ pc \in {"done", "failed"})
    => /\ pc = "done"
       /\ Len(returned) = 2
       /\ returned[1].yPredRegVal = returned[2].yPredRegVal
       /\ returned[1].yPredRegTest = returned[2].yPredRegTest

\* C3 (as claimed): once an unsupported method has been reported on the console, the
\* call ends without a failure, no model is fitted and no search log is written.
C3_UnsupportedReturnsQuietly ==
    (method \notin Supported /\ "not implemented" \in Range(console))
    => /\ error = "none"
       /\ fits = 0
       /\ searchLogWrites = 0

\* C4: after data loading the training and test identifiers are disjoint, their union
\* is the cohort, the test set is the fixed list intersected with the cohort and the
\* training set is its complement in the cohort.
C4_Bipartition ==
    Loaded => /\ trainIds \cap testRows = {}
              /\ trainIds \cup testRows = Cohort
              /\ testRows = {1, 8, 13, 20, 40, 44, 49, 55} \cap Cohort
              /\ trainIds = Cohort \ testRows

C4_Witness ==
    /\ Loaded
    /\ trainIds # {}
    /\ Cohort # featureTable.index
    /\ Cohort # DOMAIN outcomeTable

\* A requested column is absent, or a fixed test identifier is not in the cohort.
BadInput ==
    \/ \E i \in DOMAIN selectedFeatures : selectedFeatures[i] \notin featureTable.cols
    \/ \E id \in {1, 8, 13, 20, 40, 44, 49, 55} : id \notin Cohort

\* C8: with an absent feature column or a test identifier outside the cohort, every
\* call fails with KeyError, in both modes, and no search, fit or log write happens.
C8_BadInputFailsFirst ==
    BadInput => /\ pc \in {"idle", "load", "failed"}
                /\ pc = "failed" => error = "KeyError"
                /\ fits = 0
                /\ searchRuns = {}
                /\ searchLogWrites = 0
                /\ handedParams = <<>>
                /\ returned = <<>>

C8_Witness ==
    /\ pc = "failed"
    /\ error = "KeyError"
    /\ optimizeParams
    /\ method \in Supported
    /\ \A i \in DOMAIN selectedFeatures : selectedFeatures[i] \in featureTable.cols
    /\ 1 \notin Cohort
    /\ Cardinality(Cohort) >= 12

\* The value line 76 is meant to leave for a supplied value.
Collapsed(v) == IF v.isList THEN v.elems[1] ELSE v

C10_UsableFoldCount ==
    \A r \in searchRuns :
        /\ r.cv = (IF r.rows \div 2 < 5 THEN r.rows \div 2 ELSE 5)
        /\ r.cv >= 2
        /\ r.cv <= r.rows

\* C10 (amended): every grid search is given min(5, floor(n / 2)) folds, which never
\* exceeds n (nor n / 2); the count is at least 2 exactly when n >= 4, and with fewer
\* than 4 training rows the search fails: nothing is fitted and no log is written.
C10_FoldCount ==
    \A r \in searchRuns :
        /\ r.cv = (IF r.rows \div 2 < 5 THEN r.rows \div 2 ELSE 5)
        /\ r.cv <= r.rows
        /\ 2 * r.cv <= r.rows
        /\ r.cv >= 2 <=> r.rows >= 4
        /\ r.rows < 4 => (fits = 0 /\ searchLogWrites = 0 /\ pc \in {"failed", "load", "resolve"})

C10_Witness ==
    /\ searchLogWrites > 0
    /\ \E r \in searchRuns : r.rows >= 10 /\ r.cv = 5

\* ---- validate_model
RECURSIVE RunFolds(_, _, _, _)
\* The loop body applied for the folds order[k], order[k + 1], ..., on the arrays a;
\* w[f] is what fold f computes.
RunFolds(a, w, order, k) ==
    IF k > 5 THEN a ELSE RunFolds(StoreFold(a, w[order[k]]), w, order, k + 1)

\* The held-out rows of fold f in the running split.
HeldOut(f) == TestIndex(shuffled, f)

\* C7: when the 5-fold loop has completed, the held-out sets are pairwise disjoint and
\* cover every training row, every position of yPredReg and yTrue was written exactly
\* once, with the prediction of the model that did not see the row and the row's true
\* outcome, and iterating the folds in any other order gives the same arrays.
C7_EveryRowOnce ==
    kfpc = "done" =>
        LET n == Len(yTrain) IN
        /\ \A f, g \in 1..5 : f # g => HeldOut(f) \cap HeldOut(g) = {}
        /\ UNION {HeldOut(f) : f \in 1..5} = 1..n
        /\ \A i \in 1..n :
             /\ writes[i] = 1
             /\ yTrue[i] = yTrain[i]
             /\ \E f \in 1..5 : /\ i \in HeldOut(f)
                                /\ yPredReg[i] = [fitOn |-> (1..n) \ HeldOut(f), row |-> i]
        /\ \A w \in {[f \in 1..5 |-> FoldValues(shuffled, yTrain, f)]} :
           \A empty \in {<<Zeros(n, NoPrediction), Zeros(n, 0)>>} :
           \A order \in Permutations(1..5) :
               RunFolds(empty, w, order, 1) = <<yPredReg, yTrue>>

C7_Witness ==
    /\ kfpc = "done"
    /\ Len(yTrain) = 6
    /\ \E i \in 1..5 : shuffled[i] > shuffled[i + 1]
    /\ \E f, g \in 1..5 : Cardinality(HeldOut(f)) # Cardinality(HeldOut(g))
    /\ \E i, j \in 1..6 : yTrue[i] > 1 /\ yTrue[j] = 1

\* ---- test_model
\* C1 (as claimed): for LogReg, and a training column whose standard deviation is a
\* positive number, the test column handed to predict is the original test column
\* minus the mean of the original training column, divided by the standard deviation
\* of the original training column.
C1_TestUsesTrainingStatistics ==
    (/\ method = "LogReg"
     /\ stpc \in {"standardized", "done"}
     /\ Std(XtrainOrig) # NaN
     /\ Std(XtrainOrig) > 0) =>
        Xtest = [i \in DOMAIN XtestOrig |->
                    Standardized(XtestOrig[i], Mean(XtrainOrig), Std(XtrainOrig))]

\* ---- write_results_to_csv
IsHeaderRow(row) == row = Header

\* C5: a file that was absent and has since been written n >= 1 times holds the header
\* with the full key set (the 12 metadata and array columns, then the 18 metric
\* columns) as its first row and nowhere else, followed by n data rows of the same
\* width; a file never written is absent.
C5_OneHeaderThenRows ==
    \A p \in Paths :
        IF nWrites[p] = 0
        THEN ~files[p].exists /\ files[p].rows = <<>>
        ELSE LET rows == files[p].rows IN
             /\ files[p].exists
             /\ Len(rows) = 1 + nWrites[p]
             /\ rows[1] = Header
             /\ Len(rows[1]) = 12 + 18
             /\ Cardinality(Range(rows[1])) = 12 + 18
             /\ SubSeq(rows[1], 1, 12) = MetaKeys
             /\ \A i \in 2..Len(rows) : ~IsHeaderRow(rows[i]) /\ Len(rows[i]) = 12 + 18

C5_Witness ==
    /\ nWrites["results.csv"] = 2
    /\ nWrites["other.csv"] = 1
    /\ files["results.csv"].exists
    /\ Len(files["results.csv"].rows) = 3
    /\ files["other.csv"].exists
    /\ Len(files["other.csv"].rows) = 2

\* C6: a call on a file that exists leaves the rows of the file as they are and in
\* place and adds one row at the end, the data row of the call, as wide as the header
\* in the first row; the other file is untouched.
C6_AppendOnly ==
    [][\A p \in Paths :
          files[p].exists =>
              \/ files'[p] = files[p]
              \/ /\ files'[p].exists
                 /\ Len(files'[p].rows) = Len(files[p].rows) + 1
                 /\ SubSeq(files'[p].rows, 1, Len(files[p].rows)) = files[p].rows
                 /\ files'[p].rows[Len(files'[p].rows)] = DataRow(lastArgs'[1])
                 /\ lastArgs'[1].predResultsPath = p
                 /\ Len(files'[p].rows[Len(files'[p].rows)]) = Len(files[p].rows[1])
                 /\ ~IsHeaderRow(files'[p].rows[Len(files'[p].rows)])
                 /\ \A q \in Paths \ {p} : files'[q] = files[q]]_vars

C6_Witness ==
    /\ Len(files["results.csv"].rows) = 4
    /\ files["results.csv"].rows[2] # files["results.csv"].rows[3]
    /\ files["results.csv"].rows[3] # files["results.csv"].rows[4]
    /\ lastArgs # <<>>
    /\ files["results.csv"].rows[4] = DataRow(lastArgs[1])

====
